---- MODULE Spec2Model ----
(***************************************************************************)
(* A model of syft/grid/grid_client.py: the GridClient of a PyGrid server. *)
(*                                                                         *)
(* Spec       the persistent connection (connect, _send_msg, close), the   *)
(*            operations that send a message over it, and the one-shot     *)
(*            HTTP request (_send_http_req), called by one sequential      *)
(*            caller.                                                      *)
(* SpecConc   two callers sending messages over the connection of one      *)
(*            client, their steps interleaved.                             *)
(* SpecHttp   the operations over one-shot HTTP: get_protocol, the ping    *)
(*            and upload probes, get_connection_speed.                     *)
(* SpecProbe  the download probe (_get_download_speed) and its helpers.    *)
(*                                                                         *)
(* The libraries the client calls (websocket-client, requests, json) are   *)
(* the environment: their outcomes are chosen with \E at the call site.    *)
(***************************************************************************)
EXTENDS Integers, Sequences, FiniteSets, Bags, TLC

\* ------------------------------------------------------------- constants

CHUNK_SIZE == 8192
SPEED_MULT_FACTOR == 10
MAX_BUFFER_SIZE == 1048576
CHECK_SPEED_ITER == 10

\* Python's None, and JSON's null once decoded.
None == "None"

\* A local name read before any assignment (buffer_size at line 139).
UnboundLocal == -1

\* self.ws is None: no socket. Sockets are numbered from 1.
NoSocket == 0

\* ---------------------------------------------------------------- bounds

\* How many sockets websocket.create_connection hands out in one run.
MaxSockets == 3

\* How many requests a socket holds unanswered when a read may still time out.
MaxUnanswered == 1

\* ------------------------------------------------------ the environment

\* The threads that call the client. Spec runs caller "A" alone.
Callers == {"A", "B"}

\* Arguments the callers pass to the operations of the client.
Tokens == {"tok123", "tok456"}
WorkerIds == {"w1", "w2"}
RequestKeys == {"k1"}
ProtocolIds == {"p1", "p2"}
SpeedInfos == { [ping |-> 8, download |-> 2048, upload |-> 1024] }

\* _serialize(obj), lines 156-159: the protobuf bytes of an object;
\* binascii.hexlify(...).decode() and base64.b64encode(...).decode("ascii"):
\* the text that carries bytes; _serialize_object, lines 161-165: every
\* value of a dict serialized and hexlified.
Serialize(obj) == [pb |-> obj]
Hexlify(bytes) == [hex |-> bytes]
B64Encode(bytes) == [b64 |-> bytes]
SerializeObject(obj) == [k \in DOMAIN obj |-> Hexlify(Serialize(obj[k]))]

\* lines 206-209 with the token under the key "token"
AuthenticateMessageToken(auth_token) ==
    [type |-> "federated/authenticate", data |-> [token |-> auth_token]]

\* The messages the operations over the persistent connection build.
\* authenticate, lines 206-209
AuthenticateMessage(auth_token) ==
    [type |-> "federated/authenticate", data |-> [auth_token |-> auth_token]]

\* cycle_request, lines 214-222: the keys of speed_info are merged in last
CycleRequestMessage(worker_id, model_name, model_version, speed_info) ==
    [type |-> "federated/cycle-request",
     data |-> speed_info @@
              [worker_id |-> worker_id, model |-> model_name, version |-> model_version]]

\* host_federated_training, lines 185-201
HostTrainingMessage(model, plans, protocols, client_config, avg_plan, server_config) ==
    [type |-> "federated/host-training",
     data |-> [model |-> Hexlify(Serialize(model)),
               plans |-> SerializeObject(plans),
               protocols |-> SerializeObject(protocols),
               averaging_plan |-> Hexlify(Serialize(avg_plan)),
               client_config |-> client_config,
               server_config |-> server_config]]

\* report, lines 254-259
ReportMessage(worker_id, request_key, diff) ==
    [type |-> "federated/report",
     data |-> [worker_id |-> worker_id, request_key |-> request_key,
               diff |-> B64Encode(Serialize(diff))]]

\* The query parameters of get_protocol, lines 245-249.
GetProtocolParams(worker_id, request_key, protocol_id) ==
    [worker_id |-> worker_id, request_key |-> request_key, plan_id |-> protocol_id]

\* _unserialize(serialized_obj, obj_protobuf_type), lines 167-171: the bytes
\* parsed as a message of the given type and turned into an object.
Unserialize(serialized_obj, obj_protobuf_type) ==
    [parsed |-> serialized_obj, as |-> obj_protobuf_type]

\* The "data" objects of the responses the server sends: without an error
\* field, with a null one, and with non-null ones (one of them falsy).
ResponseData ==
    { [status |-> "success"],
      [error |-> None],
      [error |-> "denied"],
      [error |-> ""] }

Responses == { [type |-> t, data |-> d] : t \in {"response"}, d \in ResponseData }

\* json.dumps / json.loads: the text frame that carries an object.
JsonDumps(obj) == [text |-> obj]
JsonLoads(frame) == frame.text

\* dict.get(key, default)
DictGet(d, key, default) == IF key \in DOMAIN d THEN d[key] ELSE default

\* HTTP methods a caller may pass, statuses a server may answer.
Methods == {"GET", "POST", "PUT"}
Statuses == {200, 204, 304, 404, 500}

\* The bodies a server may answer with.
HttpBodies == {"blob-1"}

\* (path, params) pairs of the one-shot requests.
HttpRequests ==
    { [path |-> "/federated/get-model",
       params |-> [worker_id |-> "w1", request_key |-> "k1", model_id |-> "m1"]],
      [path |-> "/federated/speed-test",
       params |-> [is_ping |-> "1", worker_id |-> "w1", random |-> "r1"]] }

\* requests.Response.ok: raise_for_status() raises for 400 <= status < 600.
ResponseOk(status) == ~(400 <= status /\ status < 600)

\* ----------------------------------------------------------------- state

VARIABLES
    ws,         \* self.ws: NoSocket, or the index in socks of the client's socket
    socks,      \* every socket create_connection returned, in order
    pc,         \* per caller: where it stands
    msg,        \* per caller: the message of the _send_msg in progress
    result,     \* per caller: how its last finished call ended
    callDead,   \* per caller: no connected socket when _send_msg was called
    socksAtCall,\* per caller: Len(socks) when _send_msg was called
    sock,       \* per caller: the socket it holds: the one create_connection
                \* returned to it, or the one self.ws was when it evaluated
                \* line 68 or 69; NoSocket outside _send_msg
    lastRead,   \* per caller: the response its last _send_msg read
    lastHttp    \* the last HTTP exchange: request and the server's answer

connVars == <<ws, socks, pc, msg, result, callDead, socksAtCall, sock, lastRead, lastHttp>>

NoResult == [op |-> "none", kind |-> "none"]
Returned(op, v) == [op |-> op, kind |-> "return", value |-> v]
Raised(op, exc, line) == [op |-> op, kind |-> "raise", exc |-> exc, at |-> line]
\* GridError(error, status), lines 25-28
GridError(op, error, status, line) ==
    [op |-> op, kind |-> "raise", exc |-> "GridError", at |-> line,
     error |-> error, status |-> status]

NoHttp == [method |-> "none", answered |-> FALSE]
NoMessage == [type |-> "none"]
NoRead == [read |-> FALSE]

VARIABLES
    call,       \* per caller: the operation it called last, with its arguments
    sends,      \* per caller: the writes of line 68 made by its _send_msg
    session     \* the last get_connection_speed call: its id and sub-probes

facadeVars == <<call, sends, session>>

NoCall == [op |-> "none"]
Called(op, args) == [op |-> op, args |-> args]
NoSession == [open |-> FALSE]

FacadeInit ==
    /\ call = [c \in Callers |-> NoCall]
    /\ sends = [c \in Callers |-> 0]
    /\ session = NoSession

VARIABLES
    dpc,            \* the probe: "idle", "loop" (inside the while) or "done"
    buffer_size,    \* the local buffer_size, UnboundLocal until assigned
    speed_history,  \* the samples recorded so far
    elapsed,        \* time() - prev_timestamp, in ticks
    r,              \* the streaming response of line 136
    lasts,          \* how many samples the probe records before the body of r ends
    spare,          \* how many discarded windows the body of r still serves
    outcome,        \* how the probe ended
    ended,          \* why the loop ended: "exhausted", "error" or "converged"
    lastWindow,     \* the last window the loop body handled
    run,            \* how many of the latest samples are equal
    afterRun        \* a sample was recorded after CHECK_SPEED_ITER equal ones

probeVars == <<dpc, buffer_size, speed_history, elapsed, r, lasts, spare, outcome,
               ended, lastWindow, run, afterRun>>

NoResponse == [opened |-> FALSE, open |-> FALSE, status_code |-> 0]
NoWindow == [kind |-> "none"]

ProbeInit ==
    /\ dpc = "idle"
    /\ buffer_size = UnboundLocal
    /\ speed_history = EmptyBag
    /\ elapsed = 0
    /\ r = NoResponse
    /\ lasts = 0
    /\ spare = 0
    /\ outcome = NoResult
    /\ ended = "no"
    /\ lastWindow = NoWindow
    /\ run = [len |-> 0, sample |-> 0]
    /\ afterRun = FALSE

ConnInit ==
    /\ ws = NoSocket
    /\ socks = <<>>
    /\ pc = [c \in Callers |-> "idle"]
    /\ msg = [c \in Callers |-> NoMessage]
    /\ result = [c \in Callers |-> NoResult]
    /\ callDead = [c \in Callers |-> FALSE]
    /\ socksAtCall = [c \in Callers |-> 0]
    /\ sock = [c \in Callers |-> NoSocket]
    /\ lastRead = [c \in Callers |-> NoRead]
    /\ lastHttp = NoHttp

\* line 65 dropped: _send_msg connects before every send
NeedsConnectAlways == TRUE

\* line 65 without its second test: only a missing socket is replaced
NeedsConnectNoneOnly == ws = NoSocket

\* self.ws is None or not self.ws.connected (line 65)
NeedsConnect == ws = NoSocket \/ ~socks[ws].connected

\* websocket.create_connection succeeded: a fresh connected socket.
NewSocket == [connected |-> TRUE, pending |-> <<>>]

\* WebSocket.shutdown(): closes the socket, connected becomes False; what
\* was unanswered on it is never read.
Shutdown(s) == [connected |-> FALSE, pending |-> <<>>]

\* ------------------------------------------------- the download probe

\* Time is counted in ticks of a tenth of a second: the 0.5 s of line 141.
HalfSecond == 5
TicksPerSecond == 2 * HalfSecond

\* How many samples the streaming body lasts for at most: when the probe
\* starts at the ceiling, and when it starts below it.
MaxSamples == 12
MaxEarlySamples == 3

\* How many windows that read chunks and are discarded as too fast the body
\* lasts for, besides the windows that are recorded.
MaxDiscarded == 3

\* What the probe's free names are bound to when it runs. The module binds
\* neither: `path` is no global of it (line 136) and buffer_size is assigned
\* only at line 142. The bound cases follow the design: the speed-test path
\* and a window size that "starts at some initial value below the ceiling".
PathBindings == {"unbound", "/federated/speed-test"}
InitialBufferSizes == {UnboundLocal, 1, CHUNK_SIZE, MAX_BUFFER_SIZE}

\* Ticks that pass while the request is opened (the server's time, counted
\* into the first window: prev_timestamp is taken at line 135, before the
\* request), and while one window's chunks are read.
OpenDelays == {0, 3, 5}
BodyLengths(b0) == IF b0 = MAX_BUFFER_SIZE THEN {MaxSamples} ELSE {MaxEarlySamples}
Durations == {0, 3, 5}

\* Samples are kept as integers: KB/s times SampleUnit. With the delays
\* above a recorded window has time_taken of 5, 6 or 8 ticks, which all
\* divide SampleScale.
SampleScale == 3 * 5 * 8
SampleUnit == (1024 * SampleScale) \div TicksPerSecond

\* new_speed = buffer_size / (time_taken * 1024), line 144
NewSpeed(size, time_taken) == (size * SampleScale) \div time_taken

Min(a, b) == IF a <= b THEN a ELSE b

\* sum(speed_history), len(speed_history), min(speed_history): the list is
\* kept as the bag of its samples, which is all the three read of it.
RECURSIVE SumOver(_, _)
SumOver(bag, values) ==
    IF values = {} THEN 0
    ELSE LET v == CHOOSE x \in values : TRUE
         IN  v * CopiesIn(v, bag) + SumOver(bag, values \ {v})
HistSum(h) == SumOver(h, BagToSet(h))
HistLen(h) == BagCardinality(h)
HistMin(h) == CHOOSE x \in BagToSet(h) : \A y \in BagToSet(h) : x <= y
HistAppend(h, x) == h (+) SetToBag({x})

\* lines 146-150 with the comparison of the deviation turned round
ConvergedFlipped(h) ==
    /\ HistLen(h) % CHECK_SPEED_ITER = 0
    /\ HistSum(h) - HistLen(h) * HistMin(h) > 20 * SampleUnit * HistLen(h)
    /\ HistSum(h) > 0

\* lines 146-150 without the test of line 146: checked after every sample
ConvergedAnyCount(h) ==
    /\ HistSum(h) - HistLen(h) * HistMin(h) < 20 * SampleUnit * HistLen(h)
    /\ HistSum(h) > 0

\* lines 146-150: every CHECK_SPEED_ITER samples, avg - min < 20 and avg > 0
\* (both sides multiplied by len(speed_history)).
Converged(h) ==
    /\ HistLen(h) % CHECK_SPEED_ITER = 0
    /\ HistSum(h) - HistLen(h) * HistMin(h) < 20 * SampleUnit * HistLen(h)
    /\ HistSum(h) > 0

\* line 142 without the multiplication: buffer_size = min(buffer_size, MAX_BUFFER_SIZE)
GrowNot(size) == Min(size, MAX_BUFFER_SIZE)

\* buffer_size = min(buffer_size * SPEED_MULT_FACTOR, MAX_BUFFER_SIZE), line 142
Grow(size) == Min(size * SPEED_MULT_FACTOR, MAX_BUFFER_SIZE)

\* line 136 as a plain assignment, r = requests.get(...): nothing closes r
ExitWithLeak(resp) == resp

\* leaving the `with` block of line 136, by any way out: the response is closed
ExitWith(resp) == [resp EXCEPT !.open = FALSE]

\* lines 153-154: the mean of the samples; no samples, a division by zero
AvgSpeed(h) ==
    IF HistLen(h) = 0
    THEN Raised("_get_download_speed", "ZeroDivisionError", 153)
    ELSE Returned("_get_download_speed", [sum |-> HistSum(h), len |-> HistLen(h)])

\* ------------------------------------------- the ping and upload probes

\* The ids a caller passes as random_id, and the ticks a timed request takes.
RandomIds == {11, 22}
RequestDurations == {5, 10, 20}

\* ping = (time() - start) * 1000, line 112: milliseconds
PingMs(d) == (d * 1000) \div TicksPerSecond

\* data_sample = b"x" * MAX_BUFFER_SIZE * 64, line 116
DataSample == [byte |-> "x", len |-> MAX_BUFFER_SIZE * 64]

\* upload_speed = 64 * 1024 / (time() - start()), line 126: start is the
\* float of line 124, and calling it raises TypeError whatever time passed.
UploadSpeed(d) == Raised("_get_upload_speed", "TypeError", 126)

\* ------------------------------------------------------------ operations

\* Caller c has no _send_msg in progress: its locals are gone.
NoSendMsg(c) ==
    /\ msg' = [msg EXCEPT ![c] = NoMessage]
    /\ callDead' = [callDead EXCEPT ![c] = FALSE]
    /\ socksAtCall' = [socksAtCall EXCEPT ![c] = 0]
    /\ sock' = [sock EXCEPT ![c] = NoSocket]

\* The socket self.ws is replaced: it stays as connected as it was, and what
\* was unanswered on it is never read.
Replaced(all) ==
    IF ws = NoSocket THEN all ELSE [all EXCEPT ![ws].pending = <<>>]

\* connect(), lines 52-55. create_connection either returns a fresh socket,
\* which replaces self.ws (the socket it replaces is left as it is), or
\* raises.
Connect(c) ==
    /\ pc[c] = "idle"
    /\ \/ /\ Len(socks) < MaxSockets
          /\ socks' = Append(Replaced(socks), NewSocket)
          /\ ws' = Len(socks) + 1
          /\ result' = [result EXCEPT ![c] = Returned("connect", None)]
       \/ /\ result' = [result EXCEPT ![c] = Raised("connect", "ConnectionRefusedError", 55)]
          /\ UNCHANGED <<ws, socks>>
    /\ lastRead' = [lastRead EXCEPT ![c] = NoRead]
    /\ lastHttp' = NoHttp
    /\ call' = [call EXCEPT ![c] = NoCall]
    /\ sends' = [sends EXCEPT ![c] = 0]
    /\ NoSendMsg(c)
    /\ UNCHANGED <<pc, session>>
    /\ UNCHANGED probeVars

\* close(), lines 173-174: self.ws.shutdown(), whatever self.ws is.
Close(c) ==
    /\ pc[c] = "idle"
    /\ IF ws = NoSocket
       THEN /\ result' = [result EXCEPT ![c] = Raised("close", "AttributeError", 174)]
            /\ UNCHANGED socks
       ELSE /\ socks' = [socks EXCEPT ![ws] = Shutdown(@)]
            /\ result' = [result EXCEPT ![c] = Returned("close", None)]
    /\ lastRead' = [lastRead EXCEPT ![c] = NoRead]
    /\ lastHttp' = NoHttp
    /\ call' = [call EXCEPT ![c] = NoCall]
    /\ sends' = [sends EXCEPT ![c] = 0]
    /\ NoSendMsg(c)
    /\ UNCHANGED <<ws, pc, session>>
    /\ UNCHANGED probeVars

\* _send_msg(message), lines 57-65: the caller is handed the message and
\* tests self.ws. With no connected socket it goes on to connect(), where it
\* waits for create_connection; with one, to the write of line 68. The
\* operation that calls _send_msg sets `call`.
SendMsgCall(c, m) ==
    /\ pc[c] = "idle"
    /\ msg' = [msg EXCEPT ![c] = m]
    /\ sends' = [sends EXCEPT ![c] = 0]
    /\ callDead' = [callDead EXCEPT ![c] = NeedsConnect]
    /\ socksAtCall' = [socksAtCall EXCEPT ![c] = Len(socks)]
    /\ sock' = [sock EXCEPT ![c] = NoSocket]
    /\ lastRead' = [lastRead EXCEPT ![c] = NoRead]
    /\ pc' = [pc EXCEPT ![c] = IF NeedsConnect THEN "connect" ELSE "send"]
    /\ result' = [result EXCEPT ![c] = NoResult]
    /\ lastHttp' = NoHttp
    /\ UNCHANGED <<ws, socks, session>>
    /\ UNCHANGED probeVars

\* self.connect() of line 66, lines 52-55: the create_connection the caller
\* waited in returns a fresh socket, which the caller holds, or raises, and
\* the call is over.
SendMsgConnect(c) ==
    /\ pc[c] = "connect"
    /\ \/ /\ Len(socks) < MaxSockets
          /\ socks' = Append(socks, NewSocket)
          /\ sock' = [sock EXCEPT ![c] = Len(socks) + 1]
          /\ pc' = [pc EXCEPT ![c] = "assign"]
          /\ UNCHANGED result
       \/ /\ result' = [result EXCEPT ![c] =
                          Raised("_send_msg", "ConnectionRefusedError", 55)]
          /\ pc' = [pc EXCEPT ![c] = "idle"]
          /\ UNCHANGED <<socks, sock>>
    /\ UNCHANGED <<ws, msg, callDead, socksAtCall, lastRead, lastHttp>>
    /\ UNCHANGED facadeVars
    /\ UNCHANGED probeVars

\* self.ws = ... of line 55: the socket the caller holds is assigned to
\* self.ws, whatever self.ws has become since the test of line 65; what it
\* replaces is left as it is.
SendMsgAssign(c) ==
    /\ pc[c] = "assign"
    /\ ws' = sock[c]
    /\ sock' = [sock EXCEPT ![c] = NoSocket]
    /\ pc' = [pc EXCEPT ![c] = "send"]
    /\ UNCHANGED <<socks, msg, result, callDead, socksAtCall, lastRead, lastHttp>>
    /\ UNCHANGED facadeVars
    /\ UNCHANGED probeVars

\* self.ws.send of line 68 is evaluated: the caller holds the socket self.ws
\* is now and goes into its send(); with self.ws None the attribute lookup
\* fails.
SendMsgSendCall(c) ==
    /\ pc[c] = "send"
    /\ IF ws = NoSocket
       THEN /\ result' = [result EXCEPT ![c] = Raised("_send_msg", "AttributeError", 68)]
            /\ pc' = [pc EXCEPT ![c] = "idle"]
            /\ UNCHANGED sock
       ELSE /\ sock' = [sock EXCEPT ![c] = ws]
            /\ pc' = [pc EXCEPT ![c] = "in_send"]
            /\ UNCHANGED result
    /\ UNCHANGED <<ws, socks, msg, callDead, socksAtCall, lastRead, lastHttp>>
    /\ UNCHANGED facadeVars
    /\ UNCHANGED probeVars

\* send(json.dumps(message)) of line 68 takes effect on the socket the caller
\* holds, whatever self.ws is by now. A socket that was shut down refuses the
\* write; a connected one takes it, or the transport fails.
SendMsgSend(c) ==
    /\ pc[c] = "in_send"
    /\ IF ~socks[sock[c]].connected
       THEN /\ result' = [result EXCEPT ![c] =
                            Raised("_send_msg", "WebSocketConnectionClosedException", 68)]
            /\ pc' = [pc EXCEPT ![c] = "idle"]
            /\ sock' = [sock EXCEPT ![c] = NoSocket]
            /\ UNCHANGED <<socks, sends>>
       ELSE /\ sends' = [sends EXCEPT ![c] = @ + 1]
            /\ \/ /\ socks' = [socks EXCEPT ![sock[c]].pending =
                                    Append(@, [from |-> c, frame |-> JsonDumps(msg[c])])]
                  /\ pc' = [pc EXCEPT ![c] = "recv"]
                  /\ UNCHANGED <<result, sock>>
               \/ /\ result' = [result EXCEPT ![c] =
                                    Raised("_send_msg", "BrokenPipeError", 68)]
                  /\ pc' = [pc EXCEPT ![c] = "idle"]
                  /\ sock' = [sock EXCEPT ![c] = NoSocket]
                  /\ UNCHANGED socks
    /\ UNCHANGED <<ws, msg, callDead, socksAtCall, lastRead, lastHttp, call, session>>
    /\ UNCHANGED probeVars

\* lines 74-78 with `if error:` for `if error is not None:`
CheckResponseTruthy(json_response) ==
    LET error == DictGet(json_response.data, "error", None)
    IN  IF error \notin {None, ""}
        THEN GridError("_send_msg", error, None, 76)
        ELSE Returned("_send_msg", json_response)

\* The check of the decoded response, lines 74-78.
CheckResponse(json_response) ==
    LET error == DictGet(json_response.data, "error", None)
    IN  IF error # None
        THEN GridError("_send_msg", error, None, 76)
        ELSE Returned("_send_msg", json_response)

\* self.ws.recv of line 69 is evaluated: the caller holds the socket self.ws
\* is now and waits in its recv(); with self.ws None the attribute lookup
\* fails.
SendMsgRecvCall(c) ==
    /\ pc[c] = "recv"
    /\ IF ws = NoSocket
       THEN /\ result' = [result EXCEPT ![c] = Raised("_send_msg", "AttributeError", 69)]
            /\ pc' = [pc EXCEPT ![c] = "idle"]
            /\ sock' = [sock EXCEPT ![c] = NoSocket]
       ELSE /\ sock' = [sock EXCEPT ![c] = ws]
            /\ pc' = [pc EXCEPT ![c] = "in_recv"]
            /\ UNCHANGED result
    /\ UNCHANGED <<ws, socks, msg, callDead, socksAtCall, lastRead, lastHttp>>
    /\ UNCHANGED facadeVars
    /\ UNCHANGED probeVars

\* recv() of line 69 returns on the socket the caller holds, whatever self.ws
\* is by now, and lines 69-78 decode and check the response. recv hands over
\* the server's answer to the oldest unanswered frame of that socket, or
\* fails: the connection is gone (connected becomes False), or nothing
\* arrives before the timeout of line 53, and then the socket stays connected
\* with the request unanswered on it.
SendMsgRecv(c) ==
    /\ pc[c] = "in_recv"
    /\ pc' = [pc EXCEPT ![c] = "idle"]
    /\ sock' = [sock EXCEPT ![c] = NoSocket]
    /\ \/ /\ socks[sock[c]].connected
          /\ socks[sock[c]].pending # <<>>
          /\ \E resp \in Responses :
               LET json_response == JsonLoads(JsonDumps(resp))
               IN  /\ lastRead' = [lastRead EXCEPT ![c] =
                                     [read |-> TRUE, response |-> json_response,
                                      reply_to |-> Head(socks[sock[c]].pending)]]
                   /\ result' = [result EXCEPT ![c] = CheckResponse(json_response)]
          /\ socks' = [socks EXCEPT ![sock[c]].pending = Tail(@)]
       \/ /\ socks[sock[c]].connected
          /\ Len(socks[sock[c]].pending) <= MaxUnanswered
          /\ result' = [result EXCEPT ![c] =
                          Raised("_send_msg", "WebSocketTimeoutException", 69)]
          /\ UNCHANGED <<socks, lastRead>>
       \/ /\ socks' = [socks EXCEPT ![sock[c]] = Shutdown(@)]
          /\ result' = [result EXCEPT ![c] =
                          Raised("_send_msg", "WebSocketConnectionClosedException", 69)]
          /\ UNCHANGED lastRead
    /\ UNCHANGED <<ws, msg, callDead, socksAtCall, lastHttp>>
    /\ UNCHANGED facadeVars
    /\ UNCHANGED probeVars

\* _send_http_req(method, path, params, body), lines 80-90. The request fails
\* in the transport, or the server answers with a status and a body.
SendHttpReq(c, method, path, params, body) ==
    /\ pc[c] = "idle"
    /\ IF method \notin {"GET", "POST"}
       THEN \* neither branch binds res: line 86 reads an unbound local
            /\ result' = [result EXCEPT ![c] =
                            Raised("_send_http_req", "UnboundLocalError", 86)]
            /\ lastHttp' = NoHttp
       ELSE \/ /\ result' = [result EXCEPT ![c] =
                               Raised("_send_http_req", "ConnectionError",
                                      IF method = "GET" THEN 82 ELSE 84)]
               /\ lastHttp' = [by |-> c, method |-> method, path |-> path, params |-> params,
                               body |-> IF method = "GET" THEN None ELSE body,
                               answered |-> FALSE]
            \/ \E status \in Statuses, content \in HttpBodies :
                 /\ lastHttp' = [by |-> c, method |-> method, path |-> path, params |-> params,
                                 body |-> IF method = "GET" THEN None ELSE body,
                                 answered |-> TRUE,
                                 status_code |-> status, content |-> content]
                 /\ result' = [result EXCEPT ![c] =
                      IF ~ResponseOk(status)
                      THEN GridError("_send_http_req", "HTTP response is not OK", status, 87)
                      ELSE Returned("_send_http_req", content)]
    /\ lastRead' = [lastRead EXCEPT ![c] = NoRead]
    /\ call' = [call EXCEPT ![c] = NoCall]
    /\ sends' = [sends EXCEPT ![c] = 0]
    /\ NoSendMsg(c)
    /\ UNCHANGED <<ws, socks, pc, session>>
    /\ UNCHANGED probeVars

\* ------------------------------------- operations over the connection

\* authenticate(auth_token), lines 205-211: the message is built and handed
\* to _send_msg, whose outcome is the outcome of the operation.
Authenticate(c, auth_token) ==
    /\ SendMsgCall(c, AuthenticateMessage(auth_token))
    /\ call' = [call EXCEPT ![c] = Called("authenticate", [auth_token |-> auth_token])]

\* cycle_request(worker_id, model_name, model_version, speed_info), lines 213-223
CycleRequest(c, worker_id, model_name, model_version, speed_info) ==
    /\ SendMsgCall(c, CycleRequestMessage(worker_id, model_name, model_version, speed_info))
    /\ call' = [call EXCEPT ![c] =
                  Called("cycle_request",
                         [worker_id |-> worker_id, model_name |-> model_name,
                          model_version |-> model_version, speed_info |-> speed_info])]

\* host_federated_training(...), lines 176-203
HostFederatedTraining(c, model, plans, protocols, client_config, avg_plan, server_config) ==
    /\ SendMsgCall(c, HostTrainingMessage(model, plans, protocols, client_config,
                                          avg_plan, server_config))
    /\ call' = [call EXCEPT ![c] = Called("host_federated_training", [model |-> model])]

\* report(worker_id, request_key, diff), lines 253-260
Report(c, worker_id, request_key, diff) ==
    /\ SendMsgCall(c, ReportMessage(worker_id, request_key, diff))
    /\ call' = [call EXCEPT ![c] =
                  Called("report", [worker_id |-> worker_id, request_key |-> request_key,
                                    diff |-> diff])]

\* ------------------------------------------ operations over one-shot HTTP

\* The ways one _send_http_req(method, path, params, body) with GET or POST
\* can go, lines 80-90: the exchange, and what the call returns or raises.
HttpOutcomes(c, method, path, params, body) ==
    LET request == [by |-> c, method |-> method, path |-> path, params |-> params,
                    body |-> IF method = "GET" THEN None ELSE body]
    IN  { [http |-> request @@ [answered |-> FALSE],
           result |-> Raised("_send_http_req", "ConnectionError",
                             IF method = "GET" THEN 82 ELSE 84)] }
        \cup
        { [http |-> request @@ [answered |-> TRUE, status_code |-> status,
                                content |-> content],
           result |-> IF ~ResponseOk(status)
                      THEN GridError("_send_http_req", "HTTP response is not OK", status, 87)
                      ELSE Returned("_send_http_req", content)] :
          status \in Statuses, content \in HttpBodies }

\* get_protocol(worker_id, request_key, protocol_id), lines 244-251
GetProtocol(c, worker_id, request_key, protocol_id) ==
    /\ pc[c] = "idle"
    /\ \E o \in HttpOutcomes(c, "GET", "/federated/get-protocol",
                              GetProtocolParams(worker_id, request_key, protocol_id), None) :
          /\ lastHttp' = o.http
          /\ result' = [result EXCEPT ![c] =
                          IF o.result.kind = "return"
                          THEN Returned("get_protocol",
                                        Unserialize(o.result.value, "ProtocolPB"))
                          ELSE o.result]
    /\ call' = [call EXCEPT ![c] =
                  Called("get_protocol",
                         [worker_id |-> worker_id, request_key |-> request_key,
                          protocol_id |-> protocol_id])]
    /\ sends' = [sends EXCEPT ![c] = 0]
    /\ lastRead' = [lastRead EXCEPT ![c] = NoRead]
    /\ NoSendMsg(c)
    /\ UNCHANGED <<ws, socks, pc, session>>
    /\ UNCHANGED probeVars

\* _get_ping(worker_id, random_id), lines 104-113: one GET, timed; d ticks
\* pass between the two readings of the clock.
GetPing(c, worker_id, random_id, d) ==
    /\ pc[c] = "idle"
    /\ \E o \in HttpOutcomes(c, "GET", "/federated/speed-test",
                              [is_ping |-> 1, worker_id |-> worker_id,
                               random |-> random_id], None) :
          /\ lastHttp' = o.http @@ [elapsed |-> d]
          /\ result' = [result EXCEPT ![c] =
                          IF o.result.kind = "return"
                          THEN Returned("_get_ping", PingMs(d))
                          ELSE o.result]
    /\ call' = [call EXCEPT ![c] =
                  Called("_get_ping", [worker_id |-> worker_id, random_id |-> random_id])]
    /\ sends' = [sends EXCEPT ![c] = 0]
    /\ lastRead' = [lastRead EXCEPT ![c] = NoRead]
    /\ NoSendMsg(c)
    /\ UNCHANGED <<ws, socks, pc, session>>
    /\ UNCHANGED probeVars

\* _get_upload_speed(worker_id, random_id), lines 115-127: one POST of the
\* 64 MiB sample, timed; then line 126 computes the speed.
GetUploadSpeed(c, worker_id, random_id, d) ==
    /\ pc[c] = "idle"
    /\ \E o \in HttpOutcomes(c, "POST", "/federated/speed-test",
                              [worker_id |-> worker_id, random |-> random_id],
                              [upload_data |-> DataSample]) :
          /\ lastHttp' = o.http @@ [elapsed |-> d]
          /\ result' = [result EXCEPT ![c] =
                          IF o.result.kind = "return"
                          THEN UploadSpeed(d)
                          ELSE o.result]
    /\ call' = [call EXCEPT ![c] =
                  Called("_get_upload_speed",
                         [worker_id |-> worker_id, random_id |-> random_id])]
    /\ sends' = [sends EXCEPT ![c] = 0]
    /\ lastRead' = [lastRead EXCEPT ![c] = NoRead]
    /\ NoSendMsg(c)
    /\ UNCHANGED <<ws, socks, pc, session>>
    /\ UNCHANGED probeVars

\* get_connection_speed(worker_id), lines 262-267. Line 263 assigns the local
\* name `random`, so the `random` it reads on its right-hand side is that
\* local, still unbound: the call ends there, before any id exists and
\* before line 264 starts the first sub-probe.
GetConnectionSpeed(c, worker_id) ==
    /\ pc[c] = "idle"
    /\ result' = [result EXCEPT ![c] =
                    Raised("get_connection_speed", "UnboundLocalError", 263)]
    /\ session' = [open |-> TRUE, by |-> c, worker_id |-> worker_id,
                   generated |-> 0, started |-> <<>>]
    /\ lastHttp' = NoHttp
    /\ call' = [call EXCEPT ![c] =
                  Called("get_connection_speed", [worker_id |-> worker_id])]
    /\ sends' = [sends EXCEPT ![c] = 0]
    /\ lastRead' = [lastRead EXCEPT ![c] = NoRead]
    /\ NoSendMsg(c)
    /\ UNCHANGED <<ws, socks, pc>>
    /\ UNCHANGED probeVars

\* ------------------------------------------------------ the probe's steps

\* _get_download_speed(worker_id, random_id), lines 129-138: up to the loop.
\* Evaluating `path` fails when the name is unbound; requests.get fails in the
\* transport or answers; raise_for_status raises on a 4xx or 5xx status and
\* the `with` block is left.
GetDownloadSpeed(binding, b0, delay) ==
    /\ dpc = "idle"
    /\ lasts' \in BodyLengths(b0)
    /\ spare' = MaxDiscarded
    /\ speed_history' = EmptyBag
    /\ ended' = "no"
    /\ lastWindow' = NoWindow
    /\ run' = [len |-> 0, sample |-> 0]
    /\ afterRun' = FALSE
    /\ IF binding = "unbound"
       THEN /\ outcome' = Raised("_get_download_speed", "NameError", 136)
            /\ dpc' = "done"
            /\ r' = NoResponse
            /\ buffer_size' = UnboundLocal
            /\ elapsed' = 0
       ELSE \/ /\ outcome' = Raised("_get_download_speed", "ConnectionError", 136)
               /\ dpc' = "done"
               /\ r' = NoResponse
               /\ buffer_size' = UnboundLocal
               /\ elapsed' = 0
            \/ \E status \in Statuses :
                 LET resp == [opened |-> TRUE, open |-> TRUE, status_code |-> status]
                 IN  IF ~ResponseOk(status)
                     THEN /\ outcome' = Raised("_get_download_speed", "HTTPError", 137)
                          /\ dpc' = "done"
                          /\ r' = ExitWith(resp)
                          /\ buffer_size' = UnboundLocal
                          /\ elapsed' = 0
                     ELSE /\ outcome' = NoResult
                          /\ dpc' = "loop"
                          /\ r' = resp
                          /\ buffer_size' = b0
                          /\ elapsed' = delay
    /\ UNCHANGED <<connVars, facadeVars>>

\* The loop test of line 139 with buffer_size unbound: UnboundLocalError,
\* raised inside the `with` block.
LoopTestUnbound ==
    /\ dpc = "loop"
    /\ buffer_size = UnboundLocal
    /\ outcome' = Raised("_get_download_speed", "UnboundLocalError", 139)
    /\ dpc' = "done"
    /\ r' = ExitWith(r)
    /\ UNCHANGED <<buffer_size, speed_history, elapsed, lasts, spare, ended,
                   lastWindow, run, afterRun>>
    /\ UNCHANGED <<connVars, facadeVars>>

\* _read_n_request_chunks returns False, lines 96-101: next() raised, because
\* the body is exhausted ("exhausted") or because the transport failed
\* ("error"); the bare except takes both. The loop ends, the `with` block is
\* left, and lines 153-154 compute the result.
ReadChunksFalse(why) ==
    /\ dpc = "loop"
    /\ buffer_size # UnboundLocal
    /\ buffer_size \div CHUNK_SIZE > 0
    /\ ended' = why
    /\ r' = ExitWith(r)
    /\ outcome' = AvgSpeed(speed_history)
    /\ dpc' = "done"
    /\ UNCHANGED <<buffer_size, speed_history, elapsed, lasts, spare, lastWindow,
                   run, afterRun>>
    /\ UNCHANGED <<connVars, facadeVars>>

\* _read_n_request_chunks returns True after d ticks, and the loop body runs,
\* lines 139-151. A window of no chunks (buffer_size < CHUNK_SIZE) reads
\* nothing and takes no tick, but the time since prev_timestamp counts for it
\* as for any window; a window that reads chunks uses up the body. The probe
\* records `lasts` samples at most, and the body serves `spare` discarded
\* windows.
ReadChunksTrue(d) ==
    /\ dpc = "loop"
    /\ buffer_size # UnboundLocal
    /\ LET n == buffer_size \div CHUNK_SIZE
           time_taken == elapsed + d
           new_speed == NewSpeed(buffer_size, time_taken)
           history == HistAppend(speed_history, new_speed)
       IN  /\ n = 0 => d = 0
           /\ IF time_taken < HalfSecond
              THEN n > 0 => spare > 0
              ELSE HistLen(speed_history) < lasts
           /\ spare' = IF n > 0 /\ time_taken < HalfSecond THEN spare - 1 ELSE spare
           /\ UNCHANGED lasts
           /\ lastWindow' = [kind |-> IF time_taken < HalfSecond THEN "fast" ELSE "sample",
                             chunks |-> n, duration |-> d, time_taken |-> time_taken,
                             buffer_size |-> buffer_size]
           /\ IF time_taken < HalfSecond
              THEN /\ buffer_size' = Grow(buffer_size)
                   /\ elapsed' = time_taken
                   /\ UNCHANGED <<speed_history, run, afterRun, dpc, r, outcome, ended>>
              ELSE /\ speed_history' = history
                   /\ run' = IF run.len > 0 /\ run.sample = new_speed
                             THEN [run EXCEPT !.len = @ + 1]
                             ELSE [len |-> 1, sample |-> new_speed]
                   /\ afterRun' = (afterRun \/ run.len >= CHECK_SPEED_ITER)
                   /\ UNCHANGED buffer_size
                   /\ IF Converged(history)
                      THEN /\ ended' = "converged"
                           /\ r' = ExitWith(r)
                           /\ outcome' = AvgSpeed(history)
                           /\ dpc' = "done"
                           /\ elapsed' = time_taken
                      ELSE /\ elapsed' = 0
                           /\ UNCHANGED <<dpc, r, outcome, ended>>
    /\ UNCHANGED <<connVars, facadeVars>>

ProbeNext ==
    \/ \E binding \in PathBindings, b0 \in InitialBufferSizes, delay \in OpenDelays :
          GetDownloadSpeed(binding, b0, delay)
    \/ LoopTestUnbound
    \/ \E why \in {"exhausted", "error"} : ReadChunksFalse(why)
    \/ \E d \in Durations : ReadChunksTrue(d)

\* ------------------------------------------------------- specification

\* The arguments of the calls that carry objects.
Model1 == "model-1"
ClientPlans == [training_plan |-> "plan-1"]
ClientProtocols == [protocol_1 |-> "protocol-1"]
ClientConfig == [name |-> "mnist", version |-> "1.0.0"]
AveragingPlan == "averaging-plan"
ServerConfig == [pool_selection |-> "random"]

ConnNext ==
    \/ Connect("A")
    \/ Close("A")
    \/ \E token \in Tokens : Authenticate("A", token)
    \/ \E speed_info \in SpeedInfos : CycleRequest("A", "w1", "mnist", "1.0.0", speed_info)
    \/ HostFederatedTraining("A", Model1, ClientPlans, ClientProtocols, ClientConfig,
                             AveragingPlan, ServerConfig)
    \/ Report("A", "w1", "k1", "diff-1")
    \/ SendMsgConnect("A")
    \/ SendMsgAssign("A")
    \/ SendMsgSendCall("A")
    \/ SendMsgSend("A")
    \/ SendMsgRecvCall("A")
    \/ SendMsgRecv("A")
    \/ \E method \in Methods, rq \in HttpRequests :
          SendHttpReq("A", method, rq.path, rq.params,
                      IF method = "POST" THEN "payload" ELSE None)

Init == ConnInit /\ FacadeInit /\ ProbeInit
vars == <<connVars, facadeVars, probeVars>>
Next == ConnNext
Spec == Init /\ [][Next]_vars
SpecProbe == Init /\ [][ProbeNext]_vars

\* Two callers on one client, their steps interleaved.
ConcNext ==
    \/ Authenticate("A", "tok123")
    \/ Report("B", "w1", "k1", "diff-1")
    \/ \E c \in Callers : SendMsgConnect(c)
    \/ \E c \in Callers : SendMsgAssign(c)
    \/ \E c \in Callers : SendMsgSendCall(c)
    \/ \E c \in Callers : SendMsgSend(c)
    \/ \E c \in Callers : SendMsgRecvCall(c)
    \/ \E c \in Callers : SendMsgRecv(c)
SpecConc == Init /\ [][ConcNext]_vars

\* The operations over one-shot HTTP, one sequential caller.
HttpNext ==
    \/ \E w \in WorkerIds, k \in RequestKeys, p \in ProtocolIds : GetProtocol("A", w, k, p)
    \/ \E w \in WorkerIds, id \in RandomIds, d \in RequestDurations : GetPing("A", w, id, d)
    \/ \E w \in WorkerIds, id \in RandomIds, d \in RequestDurations :
          GetUploadSpeed("A", w, id, d)
    \/ \E w \in WorkerIds : GetConnectionSpeed("A", w)
SpecHttp == Init /\ [][HttpNext]_vars

\* ---------------------------------------------------------------- claims

\* C1: close() never raises, whatever the connection state: also as the very
\* first operation, and right after another close.
C1_CloseNeverRaises ==
    \A c \in Callers : result[c].op = "close" => result[c].kind = "return"

\* C2: _send_msg writes on a live socket. When it is about to write, self.ws
\* is a connected socket, and one opened by this very call if there was no
\* connected socket at call time; the write is never refused by a socket that
\* is absent or shut down; and once written, the message is the latest frame
\* on that socket.
C2_SendOnLiveSocket ==
    \A c \in Callers :
        /\ pc[c] \in {"send", "in_send"} =>
              /\ ws # NoSocket
              /\ socks[ws].connected
              /\ callDead[c] => ws > socksAtCall[c]
              /\ pc[c] = "in_send" => sock[c] = ws
        /\ pc[c] \in {"recv", "in_recv"} =>
              /\ sock[c] = ws
              /\ socks[ws].pending # <<>>
              /\ socks[ws].pending[Len(socks[ws].pending)] =
                    [from |-> c, frame |-> JsonDumps(msg[c])]
        /\ (result[c].op = "_send_msg" /\ result[c].kind = "raise" /\ result[c].at = 68) =>
              result[c].exc = "BrokenPipeError"

\* A _send_msg called when the client's socket had been shut down has opened
\* another socket and written its message on it.
C2_Witness ==
    /\ pc["A"] = "recv"
    /\ callDead["A"]
    /\ socksAtCall["A"] >= 1
    /\ ~socks[socksAtCall["A"]].connected
    /\ ws > socksAtCall["A"]
    /\ socks[ws].connected

\* C3 (as claimed): buffer_size never decreases and never exceeds
\* MAX_BUFFER_SIZE, and each window that completes in under 0.5 s sets it to
\* min(buffer_size * 10, MAX_BUFFER_SIZE).
C3_FastWindowGrows ==
    /\ buffer_size <= MAX_BUFFER_SIZE
    /\ lastWindow.kind # "none" =>
          /\ buffer_size >= lastWindow.buffer_size
          /\ lastWindow.duration < HalfSecond =>
                buffer_size = Min(lastWindow.buffer_size * 10, 1048576)

\* C4 (as claimed): once 10 consecutive recorded samples are equal, the probe
\* records no further sample.
C4_StopsAfterAnyEqualRun == ~afterRun

\* C4 (amended): if the first 10 recorded samples are all equal, the probe
\* stops at the 10th: it has converged and holds exactly 10 samples.
C4_FirstTenEqualStop ==
    (HistLen(speed_history) >= CHECK_SPEED_ITER /\ Cardinality(BagToSet(speed_history)) = 1)
        => /\ HistLen(speed_history) = CHECK_SPEED_ITER
           /\ dpc = "done"
           /\ ended = "converged"

\* Ten equal samples were recorded and the probe stopped there.
C4_Witness ==
    /\ HistLen(speed_history) = CHECK_SPEED_ITER
    /\ Cardinality(BagToSet(speed_history)) = 1
    /\ run.len = CHECK_SPEED_ITER
    /\ ended = "converged"
    /\ outcome.kind = "return"

\* C5 (as claimed): a recorded sample is buffer_size / (1024 x the time of
\* that one window alone): the window itself took at least 0.5 s, and no time
\* from before it is counted.
C5_SampleOfOneWindow ==
    lastWindow.kind = "sample" =>
        /\ lastWindow.duration >= HalfSecond
        /\ run.sample * lastWindow.duration = lastWindow.buffer_size * SampleScale

\* C6 (as claimed): a probe whose body is exhausted with no sample recorded
\* ends in an error that is not a division by zero; with samples, it returns
\* their arithmetic mean.
C6_NoSamplesNoDivisionByZero ==
    (dpc = "done" /\ ended = "exhausted") =>
        IF HistLen(speed_history) = 0
        THEN outcome.kind = "raise" /\ outcome.exc # "ZeroDivisionError"
        ELSE outcome = Returned("_get_download_speed",
                                [sum |-> HistSum(speed_history),
                                 len |-> HistLen(speed_history)])

\* C7 (as claimed): a transport error while chunks are read never ends in a
\* returned speed.
C7_TransportErrorNeverReturns ==
    (dpc = "done" /\ ended = "error") => outcome.kind # "return"

\* C8: whenever _get_download_speed has returned or raised, the streaming
\* response it opened is closed.
C8_ResponseReleased == dpc = "done" => ~r.open

\* The probe converged, left the loop by break, and the response it had
\* opened is closed.
C8_Witness ==
    /\ dpc = "done"
    /\ ended = "converged"
    /\ r.opened
    /\ ~r.open

\* C9: a response read by _send_msg whose data.error is present and not null
\* makes it raise GridError(that error, None); one whose data.error is absent
\* or null is returned as decoded.
C9_ErrorFieldRaises ==
    \A c \in Callers :
        lastRead[c].read =>
            LET data == lastRead[c].response.data
            IN  IF "error" \in DOMAIN data /\ data.error # None
                THEN /\ result[c].kind = "raise"
                     /\ result[c].exc = "GridError"
                     /\ result[c].error = data.error
                     /\ result[c].status = None
                ELSE /\ result[c].kind = "return"
                     /\ result[c].value = lastRead[c].response

\* The server answered with the error "" and _send_msg raised it.
C9_Witness ==
    /\ lastRead["A"].read
    /\ "error" \in DOMAIN lastRead["A"].response.data
    /\ lastRead["A"].response.data.error = ""
    /\ result["A"].kind = "raise"
    /\ result["A"].exc = "GridError"
    /\ result["A"].error = ""

\* C10 (as claimed): a GET or POST answered with a status outside 200..299
\* ends in GridError carrying that status, never in the body.
C10_NonSuccessRaises ==
    (lastHttp.answered /\ ~(200 <= lastHttp.status_code /\ lastHttp.status_code < 300)) =>
        /\ result[lastHttp.by].kind = "raise"
        /\ result[lastHttp.by].exc = "GridError"
        /\ result[lastHttp.by].status = lastHttp.status_code

\* C11 (as claimed): the client has at most one live socket: of the sockets
\* it created, never more than one is connected, also after a connect() made
\* while a connected socket exists.
C11_AtMostOneLiveSocket ==
    Cardinality({i \in 1 .. Len(socks) : socks[i].connected}) <= 1

\* C12 (as claimed): the connection never carries two request/response pairs
\* in flight: no socket holds more than one unanswered request, and the
\* response a caller reads answers the request this caller wrote, also with
\* two callers interleaved.
C12_OwnResponse ==
    /\ \A i \in 1 .. Len(socks) : Len(socks[i].pending) <= 1
    /\ \A c \in Callers :
          lastRead[c].read =>
              lastRead[c].reply_to = [from |-> c, frame |-> JsonDumps(msg[c])]

\* C13 (as claimed): a get_connection_speed call runs its sub-probes one
\* after the other in the order ping, upload, download, each started only
\* after the one before has completed; it returns only after all three have
\* completed, and when it fails, it fails with the sub-probe that failed, no
\* later one having started.
C13_ProbesInOrder ==
    \A c \in Callers :
        call[c].op = "get_connection_speed" =>
            LET s == session.started
                order == <<"ping", "upload", "download">>
            IN  /\ Len(s) >= 1
                /\ Len(s) <= 3
                /\ \A i \in 1 .. Len(s) :
                      /\ s[i].probe = order[i]
                      /\ i < Len(s) => s[i].completed
                /\ result[c].kind = "return" => (Len(s) = 3 /\ s[3].completed)
                /\ result[c].kind = "raise" => ~s[Len(s)].completed

\* C14 (as claimed): a get_connection_speed call generates one correlation
\* id, exactly once, and every request of its sub-probes carries that id as
\* `random`, with the worker_id of the call.
C14_OneCorrelationId ==
    \A c \in Callers :
        call[c].op = "get_connection_speed" =>
            /\ session.generated = 1
            /\ \A i \in 1 .. Len(session.started) :
                  /\ session.started[i].params.random = session.random
                  /\ session.started[i].params.worker_id = call[c].args.worker_id

\* C15 (as claimed): the upload probe sends one POST with the 64 MiB sample
\* and, when the POST succeeds, returns 64 * 1024 divided by the seconds the
\* POST took: 65536 KB/s for one second.
C15_UploadSpeedReturned ==
    \A c \in Callers :
        (/\ call[c].op = "_get_upload_speed"
         /\ lastHttp.answered
         /\ lastHttp.status_code \in 200 .. 299) =>
            /\ lastHttp.method = "POST"
            /\ lastHttp.body = [upload_data |-> DataSample]
            /\ DataSample.len = 64 * 1024 * 1024
            /\ result[c].kind = "return"
            /\ result[c].value * lastHttp.elapsed = 64 * 1024 * TicksPerSecond

\* C16 (as claimed): get_protocol(worker_id, request_key, protocol_id) issues
\* a GET to /federated/get-protocol whose query parameters are exactly
\* worker_id, request_key and protocol_id, each with the argument's value.
C16_GetProtocolParams ==
    \A c \in Callers :
        call[c].op = "get_protocol" =>
            /\ lastHttp.method = "GET"
            /\ lastHttp.path = "/federated/get-protocol"
            /\ DOMAIN lastHttp.params = {"worker_id", "request_key", "protocol_id"}
            /\ lastHttp.params.worker_id = call[c].args.worker_id
            /\ lastHttp.params.request_key = call[c].args.request_key
            /\ lastHttp.params.protocol_id = call[c].args.protocol_id

\* C17: authenticate(token) writes one message on the persistent connection,
\* {type: "federated/authenticate", data: {auth_token: token}}, never a
\* second one, and when the response it reads has no error field it returns
\* that decoded response unchanged.
C17_AuthenticateRoundTrip ==
    \A c \in Callers :
        call[c].op = "authenticate" =>
            LET message == [type |-> "federated/authenticate",
                            data |-> [auth_token |-> call[c].args.auth_token]]
            IN  /\ sends[c] <= 1
                /\ pc[c] \in {"recv", "in_recv"} =>
                      /\ sends[c] = 1
                      /\ socks[sock[c]].pending[Len(socks[sock[c]].pending)] =
                            [from |-> c, frame |-> JsonDumps(message)]
                /\ (lastRead[c].read /\ "error" \notin DOMAIN lastRead[c].response.data) =>
                      /\ sends[c] = 1
                      /\ result[c] = Returned("_send_msg", lastRead[c].response)

\* authenticate("tok456") wrote its message once, read a response without an
\* error field and returned it.
C17_Witness ==
    /\ call["A"] = Called("authenticate", [auth_token |-> "tok456"])
    /\ pc["A"] = "idle"
    /\ sends["A"] = 1
    /\ lastRead["A"].read
    /\ lastRead["A"].response = [type |-> "response", data |-> [status |-> "success"]]
    /\ result["A"] = Returned("_send_msg", lastRead["A"].response)

\* C18 (as claimed): every window that is timed attempts to read at least
\* one chunk.
C18_EveryWindowReadsAChunk ==
    lastWindow.kind # "none" => lastWindow.chunks >= 1

\* The windows the loop can still go through: those that are recorded,
\* those the body serves that are discarded, and the discarded windows of no
\* chunk that come before buffer_size reaches CHUNK_SIZE.
WindowsLeft ==
    (lasts - HistLen(speed_history)) + spare
        + Cardinality({k \in 0 .. 3 : buffer_size * 10^k < CHUNK_SIZE})

\* C18 (amended): the loop ends on a finite body, for every initial
\* buffer_size from 1 to MAX_BUFFER_SIZE. Every pass of the loop that goes on
\* leaves fewer windows to come, never fewer than none; a window of no chunk
\* (buffer_size < CHUNK_SIZE) reads nothing, and either it is discarded and
\* leaves a larger buffer_size, or, 0.5 s having passed since the timer was
\* started (the first window of a response that was slow to open), it is
\* recorded as the first sample and restarts the timer; and the loop ends
\* converged or with the body exhausted, a failed read counting as
\* exhaustion.
C18_LoopTerminates ==
    [][ (dpc = "loop" /\ buffer_size # UnboundLocal) =>
            /\ WindowsLeft' >= 0
            /\ dpc' = "loop" =>
                  /\ WindowsLeft' < WindowsLeft
                  /\ buffer_size \div CHUNK_SIZE = 0 =>
                        IF elapsed < HalfSecond
                        THEN /\ buffer_size' > buffer_size
                             /\ speed_history' = speed_history
                        ELSE /\ buffer_size' = buffer_size
                             /\ HistLen(speed_history) = 0
                             /\ HistLen(speed_history') = 1
                             /\ elapsed' = 0
            /\ dpc' = "done" => ended' \in {"converged", "exhausted", "error"}
      ]_vars

\* A probe that started with buffer_size 1 on a response that took 0.5 s to
\* open recorded its first window, of no chunk, went through its four
\* discarded windows of no chunk, then recorded a sample of a window of one
\* chunk, and ended with the body exhausted.
C18_Witness ==
    /\ dpc = "done"
    /\ ended = "exhausted"
    /\ buffer_size = 10000
    /\ lastWindow.kind = "sample"
    /\ lastWindow.chunks = 1
    /\ HistLen(speed_history) >= 2
    /\ BagIn(NewSpeed(1, HalfSecond), speed_history)

\* C19: the probe stops by convergence only at a check point. Whenever a
\* sample is recorded, the loop ends converged if the number of samples is a
\* positive multiple of 10 and, over all samples recorded, average - minimum
\* < 20 and average > 0; in every other case it goes on with the next
\* window. (Samples are KB/s times SampleUnit; the inequalities are
\* multiplied by the number of samples.)
C19_ConvergedOnlyAtCheckPoint ==
    [][ HistLen(speed_history') = HistLen(speed_history) + 1 =>
            LET n == HistLen(speed_history')
                total == HistSum(speed_history')
                lowest == HistMin(speed_history')
            IN  IF /\ n > 0
                   /\ n % 10 = 0
                   /\ total - n * lowest < 20 * SampleUnit * n
                   /\ total > 0
                THEN dpc' = "done" /\ ended' = "converged"
                ELSE dpc' = "loop" /\ ended' = "no"
      ]_vars

\* The probe passed the check point of 10 samples without converging, the
\* samples being too far apart, and went on to record an 11th.
C19_Witness ==
    /\ HistLen(speed_history) = 11
    /\ Cardinality(BagToSet(speed_history)) > 1
    /\ lastWindow.kind = "sample"
    /\ dpc = "loop"
    /\ ended = "no"

\* C20: no operation over the persistent connection retries. A call of
\* authenticate, cycle_request, host_federated_training or report reaches
\* the write of line 68 at most once; once the call has failed, in the
\* connect, the send, the receive or with the server's error, it is over;
\* and the call opens a socket only if the client had no connected socket
\* when it was made.
C20_NoRetry ==
    [][ \A c \in Callers :
          call'[c].op \in {"authenticate", "cycle_request",
                           "host_federated_training", "report"} =>
              /\ sends'[c] <= 1
              /\ result'[c].kind = "raise" => pc'[c] = "idle"
              /\ (pc[c] = "connect" /\ Len(socks') > Len(socks)) =>
                    (ws = NoSocket \/ ~socks[ws].connected)
      ]_vars

\* report() found the client's socket shut down, opened another one, wrote
\* its message once, and failed in the receive: the call is over.
C20_Witness ==
    /\ call["A"].op = "report"
    /\ callDead["A"]
    /\ socksAtCall["A"] >= 1
    /\ sends["A"] = 1
    /\ result["A"].kind = "raise"
    /\ result["A"].at = 69
    /\ pc["A"] = "idle"

====
